---- MODULE Spec2Model ----
(***************************************************************************)
(* Model of the HTML card extractor (extractArtifacts, parseHtmlForPreview) *)
(* of the Image-Card-HTML-Downloader.  Texts are TLA+ strings handled       *)
(* character by character; a parsed document is a tree of records.          *)
(***************************************************************************)
EXTENDS Naturals, Integers, Sequences, FiniteSets, TLC

(***************************************************************************)
(* String primitives of the JavaScript runtime                              *)
(***************************************************************************)

\* s.charAt(i - 1): the i-th character (1-based), "" outside the string
CharAt(s, i) == IF i >= 1 /\ i <= Len(s) THEN SubSeq(s, i, i) ELSE ""

\* s.startsWith(p, i - 1)
StartsAt(s, p, i) ==
    /\ i >= 1
    /\ i + Len(p) - 1 <= Len(s)
    /\ SubSeq(s, i, i + Len(p) - 1) = p

\* s.indexOf(p, from - 1) + 1: the least position >= from where p starts, 0 if none
IndexOf(s, p, from) ==
    LET at == {i \in from..(Len(s) - Len(p) + 1) : StartsAt(s, p, i)}
    IN  IF at = {} THEN 0 ELSE CHOOSE i \in at : \A k \in at : i <= k

\* s.includes(p)
Includes(s, p) == IndexOf(s, p, 1) # 0

UpperLetters == "ABCDEFGHIJKLMNOPQRSTUVWXYZ"
LowerLetters == "abcdefghijklmnopqrstuvwxyz"
Digits == "0123456789"

UpperSet == {CharAt(UpperLetters, k) : k \in 1..Len(UpperLetters)}
LowerSet == {CharAt(LowerLetters, k) : k \in 1..Len(LowerLetters)}
DigitSet == {CharAt(Digits, k) : k \in 1..Len(Digits)}

\* the lower-case and the upper-case form of each letter
LowerOf == [c \in UpperSet |-> CharAt(LowerLetters, IndexOf(UpperLetters, c, 1))]
UpperOf == [c \in LowerSet |-> CharAt(UpperLetters, IndexOf(LowerLetters, c, 1))]

LowerChar(c) == IF c \in UpperSet THEN LowerOf[c] ELSE c

UpperChar(c) == IF c \in LowerSet THEN UpperOf[c] ELSE c

\* s.toLowerCase(), character by character (halving keeps the recursion shallow)
RECURSIVE ToLowerCase(_)
ToLowerCase(s) ==
    IF Len(s) <= 1 THEN LowerChar(s)
    ELSE LET h == Len(s) \div 2
         IN  ToLowerCase(SubSeq(s, 1, h)) \o ToLowerCase(SubSeq(s, h + 1, Len(s)))

\* s.toUpperCase()
RECURSIVE ToUpperCase(_)
ToUpperCase(s) ==
    IF Len(s) <= 1 THEN UpperChar(s)
    ELSE LET h == Len(s) \div 2
         IN  ToUpperCase(SubSeq(s, 1, h)) \o ToUpperCase(SubSeq(s, h + 1, Len(s)))

\* [a-z] under the i flag
IsLetter(c) == c \in LowerSet \/ c \in UpperSet

\* \w of a regular expression: [A-Za-z0-9_]
IsWordChar(c) == IsLetter(c) \/ c \in DigitSet \/ c = "_"

\* \s of a regular expression, and the characters trim() removes
IsSpace(c) == c \in {" ", "\n", "\t", "\r"}

\* the first position >= i that holds no white space (Len(s) + 1 if none)
SkipSpace(s, i) ==
    LET ink == {k \in i..Len(s) : ~IsSpace(CharAt(s, k))}
    IN  IF ink = {} THEN Len(s) + 1 ELSE CHOOSE k \in ink : \A m \in ink : k <= m

\* s.trim()
Trim(s) ==
    LET ink == {k \in 1..Len(s) : ~IsSpace(CharAt(s, k))}
    IN  IF ink = {} THEN ""
        ELSE SubSeq(s, CHOOSE k \in ink : \A m \in ink : k <= m,
                       CHOOSE k \in ink : \A m \in ink : k >= m)

(***************************************************************************)
(* Block detection (extractArtifacts, step 1)                               *)
(***************************************************************************)

\* The grave accent U+0060 cannot be written in a TLA+ string: the model writes
\* the fence character as "^", a character no input of the model uses otherwise.
Fence == "^^^"

\* [...text.matchAll(/(3 grave accents)html([\s\S]*?)(3 grave accents)/gi)]
\*   .map(m => m[1]): the lazily captured group of every match, scanning on
\* from the end of each match
RECURSIVE FenceCaptures(_, _, _)
FenceCaptures(s, low, from) ==
    LET i == IndexOf(low, Fence \o "html", from)
        j == IF i = 0 THEN 0 ELSE IndexOf(low, Fence, i + 7)
    IN  IF i = 0 \/ j = 0 THEN << >>
        ELSE << SubSeq(s, i + 7, j - 1) >> \o FenceCaptures(s, low, j + 3)

mdMatches(t) == FenceCaptures(t, ToLowerCase(t), 1)

\* the least of two positions, 0 standing for "no match"
FirstOf(a, b) == IF a = 0 THEN b ELSE IF b = 0 THEN a ELSE IF a < b THEN a ELSE b

\* [...text.matchAll(/(<!DOCTYPE html>[\s\S]*?<\/html>|<html[\s\S]*?<\/html>)/gi)]
\*   .map(m => m[0])
RECURSIVE RawSpans(_, _, _)
RawSpans(s, low, from) ==
    LET d == IndexOf(low, "<!doctype html>", from)
        h == IndexOf(low, "<html", from)
        i == FirstOf(d, h)
        open == IF i = d THEN 15 ELSE 5
        j == IF i = 0 THEN 0 ELSE IndexOf(low, "</html>", i + open)
    IN  IF i = 0 \/ j = 0 THEN << >>
        ELSE << SubSeq(s, i, j + 6) >> \o RawSpans(s, low, j + 7)

rawMatches(t) == RawSpans(t, ToLowerCase(t), 1)

\* /<[a-z][\s\S]*>/i.test(s)
LooksLikeTag(s) ==
    \E i \in 1..Len(s) :
        /\ CharAt(s, i) = "<"
        /\ IsLetter(CharAt(s, i + 1))
        /\ \E k \in (i + 2)..Len(s) : CharAt(s, k) = ">"


\* IsFragment with the test for a div or style tag left out
IsFragment_AnyTag(trimmed) == LooksLikeTag(trimmed)

\* the fallback test for a single raw snippet
IsFragment(trimmed) ==
    LooksLikeTag(trimmed) /\ (Includes(trimmed, "<div") \/ Includes(trimmed, "<style"))


\* MapTrim without the trim
MapTrim_NoTrim(ss) == ss

\* m => m.trim() over the matches

MapTrim(ss) == [k \in 1..Len(ss) |-> Trim(ss[k])]

\* DetectBlocks with the raw-document tier tried before the fences
DetectBlocks_RawFirst(t) ==
    IF Len(rawMatches(t)) > 0 THEN MapTrim(rawMatches(t))
    ELSE IF Len(mdMatches(t)) > 0 THEN MapTrim(mdMatches(t))
    ELSE IF IsFragment(Trim(t)) THEN << Trim(t) >>
    ELSE << >>

\* the value of blocks after step 1
DetectBlocks(t) ==
    IF Len(mdMatches(t)) > 0 THEN MapTrim(mdMatches(t))
    ELSE IF Len(rawMatches(t)) > 0 THEN MapTrim(rawMatches(t))
    ELSE IF IsFragment(Trim(t)) THEN << Trim(t) >>
    ELSE << >>

(***************************************************************************)
(* The parsed document: new DOMParser().parseFromString(block, 'text/html') *)
(*                                                                         *)
(* A node is a record: an element (kind "el", its lower-case tag, its       *)
(* attributes in source order, its child nodes) or a text node (kind        *)
(* "text", its data).  The parser covers the markup the inputs of the model *)
(* use: properly nested elements with double-quoted attributes, void and    *)
(* raw-text elements, an optional doctype and optional html, head and body  *)
(* tags, which the parser supplies when they are absent.  Character         *)
(* references are not decoded (no input of the model holds one).            *)
(***************************************************************************)

\* Op applied to the value v: v is computed once and named by Op's parameter
With(v, Op(_)) == Op(v)

TextNode(d) == [kind |-> "text", tag |-> "", attrs |-> << >>, kids |-> << >>, data |-> d]
Element(t, a, k) == [kind |-> "el", tag |-> t, attrs |-> a, kids |-> k, data |-> ""]

\* elements that have no end tag
VoidTags == {"meta", "link", "br", "img", "hr", "input"}
\* elements whose content is text up to their end tag
RawTextTags == {"style", "script", "title"}
\* elements the parser puts into an implied head when they lead the document
HeadTags == {"title", "style", "meta", "link", "script"}

\* the attributes written in an open tag, from position i of its text
RECURSIVE ParseAttrs(_, _)
ParseAttrs(s, i) ==
    With(IndexOf(s, "=\"", SkipSpace(s, i)), LAMBDA eq :
      With(IF eq = 0 THEN 0 ELSE IndexOf(s, "\"", eq + 2), LAMBDA q :
        IF eq = 0 \/ q = 0 THEN << >>
        ELSE << << ToLowerCase(SubSeq(s, SkipSpace(s, i), eq - 1)),
                   SubSeq(s, eq + 2, q - 1) >> >>
             \o ParseAttrs(s, q + 1)))

\* the end of the tag name in the text of an open tag
NameEnd(inside) ==
    LET stop == {k \in 1..Len(inside) : IsSpace(CharAt(inside, k)) \/ CharAt(inside, k) = "/"}
    IN  IF stop = {} THEN Len(inside) + 1 ELSE CHOOSE k \in stop : \A m \in stop : k <= m

\* whether a tag, an end tag or a declaration starts at position i
MarkupAt(s, i) ==
    /\ CharAt(s, i) = "<"
    /\ (IsLetter(CharAt(s, i + 1)) \/ CharAt(s, i + 1) \in {"/", "!"})

\* the first position >= i where markup starts (Len(s) + 1 if none)
NextMarkup(s, i) ==
    LET at == {k \in i..Len(s) : MarkupAt(s, k)}
    IN  IF at = {} THEN Len(s) + 1 ELSE CHOOSE k \in at : \A m \in at : k <= m

\* the position after the next ">" at or after i (Len(s) + 1 if none)
AfterGt(s, i) ==
    With(IndexOf(s, ">", i), LAMBDA gt : IF gt = 0 THEN Len(s) + 1 ELSE gt + 1)

\* where the end tag of a raw-text element opened before position open starts
RawEnd(s, tag, open) ==
    With(IndexOf(ToLowerCase(s), "</" \o tag, open), LAMBDA close :
      IF close = 0 THEN Len(s) + 1 ELSE close)

RECURSIVE ParseItems(_, _)

\* the element with the given tag and attributes whose content starts at open:
\* [items, pos], the element and the position after its end tag
ElementAt(s, open, tag, attrs) ==
    IF tag \in VoidTags
    THEN [items |-> << Element(tag, attrs, << >>) >>, pos |-> open]
    ELSE IF tag \in RawTextTags
    THEN With(RawEnd(s, tag, open), LAMBDA e :
           [items |-> << Element(tag, attrs,
                                 IF e > open THEN << TextNode(SubSeq(s, open, e - 1)) >>
                                 ELSE << >>) >>,
            pos |-> AfterGt(s, e)])
    ELSE With(ParseItems(s, open), LAMBDA inner :
           [items |-> << Element(tag, attrs, inner.items) >>,
            pos |-> AfterGt(s, inner.pos)])

\* the open tag whose text (between "<" and ">") is inside
OpenTag(s, open, inside) ==
    With(NameEnd(inside), LAMBDA ne :
      ElementAt(s, open, ToLowerCase(SubSeq(inside, 1, ne - 1)), ParseAttrs(inside, ne)))

\* the node that starts at position i: [items, pos], no item for a declaration
NodeAt(s, i) ==
    IF StartsAt(s, "<!", i) THEN [items |-> << >>, pos |-> AfterGt(s, i)]
    ELSE IF MarkupAt(s, i)
    THEN With(AfterGt(s, i), LAMBDA open : OpenTag(s, open, SubSeq(s, i + 1, open - 2)))
    ELSE With(NextMarkup(s, i + 1), LAMBDA e :
           [items |-> << TextNode(SubSeq(s, i, e - 1)) >>, pos |-> e])

\* the nodes from position i up to the end tag that closes their parent (or
\* the end of the text): [items, pos], pos being where that end tag starts
ParseItems(s, i) ==
    IF i > Len(s) \/ StartsAt(s, "</", i) THEN [items |-> << >>, pos |-> i]
    ELSE With(NodeAt(s, i), LAMBDA n :
           With(ParseItems(s, n.pos), LAMBDA rest :
             [items |-> n.items \o rest.items, pos |-> rest.pos]))

\* the characters of s from position a to position b, as far as s goes
Slice(s, a, b) == SubSeq(s, a, IF b > Len(s) THEN Len(s) ELSE b)

\* whether the open tag of element name starts at position i (any letter case)
OpenTagAt(s, name, i) ==
    /\ ToLowerCase(Slice(s, i, i + Len(name))) = "<" \o name
    /\ (CharAt(s, i + Len(name) + 1) = ">" \/ IsSpace(CharAt(s, i + Len(name) + 1)))

\* the white space from position p up to position q, as text nodes
Gap(s, p, q) == IF q > p THEN << TextNode(SubSeq(s, p, q - 1)) >> ELSE << >>

\* the leading elements an implied head takes, with the white space after each
RECURSIVE ImpliedHead(_, _)
ImpliedHead(s, i) ==
    IF \E t \in HeadTags : OpenTagAt(s, t, i)
    THEN With(NodeAt(s, i), LAMBDA n :
           With(ImpliedHead(s, SkipSpace(s, n.pos)), LAMBDA rest :
             [items |-> n.items \o Gap(s, n.pos, SkipSpace(s, n.pos)) \o rest.items,
              pos |-> rest.pos]))
    ELSE [items |-> << >>, pos |-> i]

\* the position after a doctype at position p, if there is one
AfterDoctype(s, p) ==
    IF ToLowerCase(Slice(s, p, p + 8)) = "<!doctype"
    THEN SkipSpace(s, AfterGt(s, p)) ELSE p

\* the position after the open tag of element name at position p, if it is there
AfterOpenTag(s, name, p) ==
    IF OpenTagAt(s, name, p) THEN AfterGt(s, p) ELSE p

\* the body, its content starting at position p
ParseBody(s, head, p) ==
    [head |-> head, body |-> ParseItems(s, AfterOpenTag(s, "body", p)).items]

\* the head, written or implied, from position p, and the body after it
ParseHead(s, p) ==
    IF OpenTagAt(s, "head", p)
    THEN With(ParseItems(s, AfterGt(s, p)), LAMBDA h :
           ParseBody(s, h.items, SkipSpace(s, AfterGt(s, h.pos))))
    ELSE With(ImpliedHead(s, p), LAMBDA h : ParseBody(s, h.items, h.pos))

\* doc.head and doc.body (their child nodes) of the parsed block
ParseDocument(s) ==
    With(AfterDoctype(s, SkipSpace(s, 1)), LAMBDA p :
      ParseHead(s, SkipSpace(s, AfterOpenTag(s, "html", p))))

\* the markup of a node list (innerHTML) and of one node (outerHTML)
RECURSIVE SerializeAttrs(_)
SerializeAttrs(a) ==
    IF a = << >> THEN ""
    ELSE " " \o a[1][1] \o "=\"" \o a[1][2] \o "\"" \o SerializeAttrs(Tail(a))

RECURSIVE innerHTML(_)
outerHTML(n) ==
    IF n.kind = "text" THEN n.data
    ELSE "<" \o n.tag \o SerializeAttrs(n.attrs) \o ">"
         \o (IF n.tag \in VoidTags THEN ""
             ELSE innerHTML(n.kids) \o "</" \o n.tag \o ">")
innerHTML(items) ==
    IF items = << >> THEN ""
    ELSE outerHTML(items[1]) \o innerHTML(Tail(items))

\* el.tagName
tagName(n) == ToUpperCase(n.tag)

\* el.getAttribute(name): has is FALSE for null
getAttribute(n, name) ==
    LET at == {k \in 1..Len(n.attrs) : n.attrs[k][1] = name}
    IN  IF at = {} THEN [has |-> FALSE, val |-> ""]
        ELSE [has |-> TRUE, val |-> n.attrs[CHOOSE k \in at : \A m \in at : k <= m][2]]

\* el.className
className(n) == getAttribute(n, "class").val

\* node.textContent of a node list
RECURSIVE textContent(_)
textContent(items) ==
    IF items = << >> THEN ""
    ELSE (IF items[1].kind = "text" THEN items[1].data ELSE textContent(items[1].kids))
         \o textContent(Tail(items))

\* the element descendants of a node list in document order
RECURSIVE Descendants(_)
Descendants(items) ==
    IF items = << >> THEN << >>
    ELSE (IF items[1].kind = "el"
          THEN << items[1] >> \o Descendants(items[1].kids) ELSE << >>)
         \o Descendants(Tail(items))

(***************************************************************************)
(* Splitting one block (extractArtifacts, step 2)                           *)
(***************************************************************************)

SkippedTags == {"SCRIPT", "STYLE", "LINK", "META", "BR", "NOSCRIPT", "TEMPLATE"}

\* getMeaningfulChildren(el), given el's child nodes
getMeaningfulChildren(kids) ==
    SelectSeq(kids, LAMBDA n : n.kind = "el" /\ tagName(n) \notin SkippedTags)

\* (container.className || '').toLowerCase()
containerClass(container) == ToLowerCase(className(container))

\* /wrapper|container|list|grid|group|collection/.test(containerClass)
isWrapperName(cc) ==
    \E w \in {"wrapper", "container", "list", "grid", "group", "collection"} :
        Includes(cc, w)

\* innerChildren.some(child => class.toLowerCase().match(/card|slide|page|section|item/))
childrenHaveCardClass(inner) ==
    \E k \in 1..Len(inner) :
        \E w \in {"card", "slide", "page", "section", "item"} :
            Includes(ToLowerCase(className(inner[k])), w)

\* innerChildren.every(child => ['SECTION', 'ARTICLE', 'ASIDE'].includes(child.tagName))
childrenAreSections(inner) ==
    \A k \in 1..Len(inner) : tagName(inner[k]) \in {"SECTION", "ARTICLE", "ASIDE"}

\* /\bcard\b/.test(containerClass) || containerClass === 'card'
isCardName(cc) ==
    \/ \E i \in 1..Len(cc) :
          /\ StartsAt(cc, "card", i)
          /\ ~IsWordChar(CharAt(cc, i - 1))
          /\ ~IsWordChar(CharAt(cc, i + 4))
    \/ cc = "card"


\* shouldDescend with the single-card test taken first
shouldDescend_CardFirst(container, inner) ==
    IF isCardName(containerClass(container)) THEN FALSE
    ELSE isWrapperName(containerClass(container))
         \/ childrenHaveCardClass(inner) \/ childrenAreSections(inner)

\* shouldDescend without the single-card test
shouldDescend_NoCardGuard(container, inner) ==
    isWrapperName(containerClass(container))
    \/ childrenHaveCardClass(inner) \/ childrenAreSections(inner)

\* shouldDescend without the wrapper-name test
shouldDescend_ChildrenOnly(container, inner) ==
    (childrenHaveCardClass(inner) \/ childrenAreSections(inner))
    /\ ~isCardName(containerClass(container))

\* the value of shouldDescend for a container with more than one inner child
shouldDescend(container, inner) ==
    IF isWrapperName(containerClass(container)) THEN TRUE
    ELSE IF childrenHaveCardClass(inner) \/ childrenAreSections(inner)
    THEN ~isCardName(containerClass(container))
    ELSE FALSE

\* targets after the nested structure handling, innerChildren being known
PeelInner(top, inner) ==
    IF Len(inner) > 1 /\ shouldDescend(top[1], inner) THEN inner ELSE top

\* targets after the nested structure handling, starting from targets = top
PeelTop(top) ==
    IF Len(top) = 1 THEN PeelInner(top, getMeaningfulChildren(top[1].kids)) ELSE top

\* the value of targets when artifact generation starts
PeelTargets(body) == PeelTop(getMeaningfulChildren(body))

\* child.querySelector('h1, h2, h3'): the matching descendants, first one first
Headings(child) ==
    SelectSeq(Descendants(child.kids), LAMBDA n : n.tag \in {"h1", "h2", "h3"})

\* a || b on strings that may be null or undefined
OrElse(a, b) == IF a.has /\ a.val # "" THEN a ELSE b
Str(v) == [has |-> TRUE, val |-> v]

\* child.querySelector('h1, h2, h3')?.textContent?.trim()
HeadingText(h) ==
    IF h = << >> THEN [has |-> FALSE, val |-> ""] ELSE Str(Trim(textContent(h[1].kids)))

\* titleText looking at the title attribute before the heading
titleText_AttributeFirst(child, childIndex) ==
    OrElse(getAttribute(child, "title"),
      OrElse(HeadingText(Headings(child)),
        OrElse(getAttribute(child, "aria-label"),
               Str("Card " \o ToString(childIndex + 1))))).val

\* titleText numbering the synthesized title from 0
titleText_ZeroBased(child, childIndex) ==
    OrElse(HeadingText(Headings(child)),
      OrElse(getAttribute(child, "title"),
        OrElse(getAttribute(child, "aria-label"),
               Str("Card " \o ToString(childIndex))))).val

\* titleText of the split target number childIndex (from 0)
titleText(child, childIndex) ==
    OrElse(HeadingText(Headings(child)),
      OrElse(getAttribute(child, "title"),
        OrElse(getAttribute(child, "aria-label"),
               Str("Card " \o ToString(childIndex + 1))))).val

TitleMax == 30

\* titleText.length > 30 ? titleText.substring(0, 30) + '...' : titleText
Truncated(t) == IF Len(t) > TitleMax THEN SubSeq(t, 1, TitleMax) \o "..." ELSE t


\* splitCode embedding the inner markup of the target instead of the outer
splitCode_Inner(headContent, child) ==
    "<!DOCTYPE html>\n<html>\n<head>\n  <meta charset=\"UTF-8\">\n  "
    \o headContent
    \o "\n</head>\n<body style=\"margin:0; padding:0; background: transparent;\">\n  "
    \o innerHTML(child.kids)
    \o "\n</body>\n</html>"

\* the document built around one split target
splitCode(headContent, child) ==
    "<!DOCTYPE html>\n<html>\n<head>\n  <meta charset=\"UTF-8\">\n  "
    \o headContent
    \o "\n</head>\n<body style=\"margin:0; padding:0; background: transparent;\">\n  "
    \o outerHTML(child)
    \o "\n</body>\n</html>"

\* SplitArtifact with an id that leaves out the index of the target
SplitArtifact_NoChildIndex(clock, index, headContent, child, k) ==
    [id |-> "artifact-split-" \o ToString(clock) \o "-" \o ToString(index),
     code |-> splitCode(headContent, child),
     title |-> Truncated(titleText(child, k - 1)),
     type |-> "html"]

\* the artifact pushed for the target at position k (from 1) of a split block
SplitArtifact(clock, index, headContent, child, k) ==
    [id |-> "artifact-split-" \o ToString(clock) \o "-" \o ToString(index)
            \o "-" \o ToString(k - 1),
     code |-> splitCode(headContent, child),
     title |-> Truncated(titleText(child, k - 1)),
     type |-> "html"]

\* where a match of /<title>(.*?)<\/title>/i may start: <title> is there, and
\* no line break comes before the next </title>
TitleMatchAt(block, low, i) ==
    /\ StartsAt(low, "<title>", i)
    /\ With(IndexOf(low, "</title>", i + 7), LAMBDA j :
         /\ j # 0
         /\ \A k \in (i + 7)..(j - 1) : CharAt(block, k) \notin {"\n", "\r"})

\* group 1 of the match that starts at position i
TitleGroup(block, low, i) ==
    SubSeq(block, i + 7, IndexOf(low, "</title>", i + 7) - 1)

\* block.match(/<title>(.*?)<\/title>/i): has is FALSE for null, val is group 1
titleMatch(block) ==
    With(ToLowerCase(block), LAMBDA low :
      With({i \in 1..Len(block) : TitleMatchAt(block, low, i)}, LAMBDA at :
        IF at = {} THEN [has |-> FALSE, val |-> ""]
        ELSE Str(TitleGroup(block, low, CHOOSE i \in at : \A k \in at : i <= k))))

\* BlockTitle always synthesized
BlockTitle_Synthesized(m, index) == "Artifact " \o ToString(index + 1)

\* titleMatch ? titleMatch[1] : `Artifact ${blockIndex + 1}`
BlockTitle(m, index) == IF m.has THEN m.val ELSE "Artifact " \o ToString(index + 1)

\* the artifact pushed for a block that is kept as it is
BlockArtifact(clock, index, block) ==
    [id |-> "artifact-block-" \o ToString(clock) \o "-" \o ToString(index),
     code |-> block,
     title |-> BlockTitle(titleMatch(block), index),
     type |-> "html"]

\* the artifact pushed by the catch clause
FallbackArtifact(clock, index, block) ==
    [id |-> "artifact-err-" \o ToString(clock) \o "-" \o ToString(index),
     code |-> block,
     title |-> "Artifact " \o ToString(index + 1),
     type |-> "html"]

(***************************************************************************)
(* parseHtmlForPreview                                                      *)
(***************************************************************************)

\* Array.from(doc.querySelectorAll('style'))
StyleElements(doc) ==
    SelectSeq(Descendants(doc.head) \o Descendants(doc.body), LAMBDA n : n.tag = "style")

\* ss.join(sep)
RECURSIVE Join(_, _)
Join(ss, sep) ==
    IF ss = << >> THEN ""
    ELSE IF Len(ss) = 1 THEN ss[1]
    ELSE ss[1] \o sep \o Join(Tail(ss), sep)

\* the elements' innerHTML joined by line breaks
StyleText(st) == Join([k \in 1..Len(st) |-> innerHTML(st[k].kids)], "\n")

\* whether /(^|}|,)\s*body/ matches from position p with the anchor ^ (p = 1)
\* or the anchor character at p
AnchoredAtStart(s, p) == p = 1 /\ StartsAt(s, "body", SkipSpace(s, p))
AnchoredAtChar(s, p) ==
    CharAt(s, p) \in {"}", ","} /\ StartsAt(s, "body", SkipSpace(s, p + 1))

\* one match of /(^|}|,)\s*body/ starting at position p: the alternatives of
\* group 1 are tried in order; end is the position after the match
BodyMatchAt(s, p) ==
    IF AnchoredAtStart(s, p)
    THEN [ok |-> TRUE, anchor |-> "", end |-> SkipSpace(s, p) + 4]
    ELSE IF AnchoredAtChar(s, p)
    THEN [ok |-> TRUE, anchor |-> CharAt(s, p), end |-> SkipSpace(s, p + 1) + 4]
    ELSE [ok |-> FALSE, anchor |-> "", end |-> p]


\* ScopedSelector without the space of the replacement text
ScopedSelector_NoSpace(anchor, wrapperId) == anchor \o "#" \o wrapperId

\* the replacement text `$1 #${wrapperId}` for one match
ScopedSelector(anchor, wrapperId) == anchor \o " #" \o wrapperId

\* styles.replace(/(^|}|,)\s*body/g, `$1 #${wrapperId}`), from position from on
RECURSIVE ReplaceBody(_, _, _)
ReplaceBody(s, wrapperId, from) ==
    With({p \in from..Len(s) : BodyMatchAt(s, p).ok}, LAMBDA at :
      IF at = {} THEN SubSeq(s, from, Len(s))
      ELSE With(CHOOSE x \in at : \A y \in at : x <= y, LAMBDA p :
             SubSeq(s, from, p - 1)
             \o ScopedSelector(BodyMatchAt(s, p).anchor, wrapperId)
             \o ReplaceBody(s, wrapperId, BodyMatchAt(s, p).end)))

\* const styles (before scoping), scopedStyles and bodyContent of a parsed document
ScopeDocument(doc, wrapperId) ==
    With(StyleText(StyleElements(doc)), LAMBDA styles :
      [rawStyles |-> styles,
       styles |-> ReplaceBody(styles, wrapperId, 1),
       bodyContent |-> innerHTML(doc.body)])

parseHtmlForPreview(html, wrapperId) == ScopeDocument(ParseDocument(html), wrapperId)

(***************************************************************************)
(* The input texts of the model                                             *)
(***************************************************************************)

\* the largest number of children written into one container
MaxChildren == 3
\* the largest number of pieces one pasted text is made of
MaxPieces == 2

\* all sequences over S of length at most n
SeqsUpTo(S, n) == UNION {[1..m -> S] : m \in 0..n}

\* class attribute values of the single container ("-" writes no class attribute)
ContainerClasses ==
    {"-", "card", "card-wrapper", "grid", "list", "collection", "group", "deck",
     "Card big"}

ChildKinds ==
    {"<section class=\"card\"><h3>X</h3>A</section>",
     "<div>Y</div>",
     "<article title=\"Zed\">Z</article>"}

ContainerMarkup(cls, kids) ==
    (IF cls = "-" THEN "<div>" ELSE "<div class=\"" \o cls \o "\">")
    \o "<style>.a{}</style>" \o Join(kids, "<br>") \o "</div>"

\* one bare fragment: a single container holding up to MaxChildren children
SplitInputs ==
    {ContainerMarkup(c, k) : c \in ContainerClasses, k \in SeqsUpTo(ChildKinds, MaxChildren)}

\* the pieces a pasted text is made of
Pieces ==
    {"See:\n",
     Fence \o "html\n<div class=\"card\">A</div>\n" \o Fence \o "\n",
     Fence \o "HTML <div class=\"list\"><p>B</p><p title=\"Tee\">C</p></div>" \o Fence,
     Fence \o "html <title>Ace</title><div>Q</div> " \o Fence,
     Fence \o "js\nlet a;\n" \o Fence \o "\n",
     "<!DOCTYPE html>\n<html><head><title>Doc</title></head><body><p>D</p></body></html>\n",
     "<HTML><body><section>E</section><section>F</section></body></HTML>",
     "<p>G</p> ",
     "<div>H</div>"}

PastedInputs == {Join(q, "") : q \in SeqsUpTo(Pieces, MaxPieces)}

Repeat(c, n) == Join([k \in 1..n |-> c], "")

\* documents whose title sources are empty, short, at and over the 30 characters
TitleLengths == {0, 1, TitleMax, TitleMax + 1}

TitleInputs ==
    {"<html><head><title>" \o Repeat("t", n) \o "</title></head><body><div>I</div></body></html>"
        : n \in TitleLengths}
    \cup
    {"<div class=\"grid\"><div><h2>" \o Repeat("h", n) \o "</h2></div><div title=\""
        \o Repeat("a", m) \o "\">J</div></div>" : n \in TitleLengths, m \in TitleLengths}

\* style sheets given to the preview
StyleSheets ==
    {"body{color:red} .x{}", ".bodyish{}", ".x{} body,body{}", "p{}\nbody {m:0}",
     "tbody,.body{} nobody{}", "p{}bodyish{}"}

StyleInputs == {"<style>" \o st \o "</style><div class=\"card\">K</div>" : st \in StyleSheets}

\* the two end-to-end examples of the specification
CardExample ==
    "<div class=\"card\"><div class=\"card-header\">X</div><div class=\"card-body\">Y</div></div>"
WrapperExample ==
    Fence \o "html\n<div class=\"wrapper\"><section class=\"card\">A</section>"
    \o "<section class=\"card\">B</section></div>\n" \o Fence

\* split targets with several title sources at once, and a document with a head
LabelledTargets ==
    "<div title=\"T\" aria-label=\"L\"><h1> H </h1><h2>N</h2></div>"
    \o "<div title=\"T\" aria-label=\"L\">a</div>"
    \o "<div aria-label=\"L\">b</div><div title=\"\" aria-label=\"L\">c</div><div>d</div>"

LabelInputs ==
    {"<div class=\"grid\">" \o LabelledTargets \o "</div>",
     "<html><head><title>Two</title><style>.c{}</style></head><body>"
        \o LabelledTargets \o "</body></html>"}

Inputs ==
    SplitInputs \cup PastedInputs \cup TitleInputs \cup StyleInputs \cup LabelInputs
    \cup {CardExample, WrapperExample}

\* the values Date.now() may return
NowValues == {1700, 1701}

\* the wrapper identifiers given to parseHtmlForPreview
WrapperIds == {"p1"}

(***************************************************************************)
(* The state machine                                                        *)
(***************************************************************************)

VARIABLES
    pc,          \* "idle": no call yet; "loop": inside blocks.forEach; "done": returned
    text,        \* the argument of extractArtifacts
    now,         \* const now = Date.now()
    blocks,      \* let blocks: string[]
    blockIndex,  \* the index (from 0) of the next block forEach visits
    artifacts,   \* const artifacts: Artifact[]
    targets,     \* let targets, as it stands at the end of the last visited block
    pushed,      \* history: the artifacts each visited block pushed
    raised,      \* history: whether the try body of each visited block raised
    preview,     \* the last call of parseHtmlForPreview: its arguments and results
    returned,    \* history: the argument and the result of every call that returned
    exported,    \* the last HTML download: who made it and the content of its files
    sectionText,           \* InputSection: const [text, setText]
    fileName,              \* InputSection: const [fileName, setFileName] ("" for null)
    lastProcessedTextRef,  \* InputSection: lastProcessedTextRef.current
    isFileUploadRef,       \* InputSection: isFileUploadRef.current
    isLoading,             \* the isLoading prop: App's status is analyzing
    inFlight,              \* the calls of processInput that have not finished
    timer,                 \* the timeout the auto-process effect has pending
    reading,               \* the combined text processFiles is still reading ("" for none)
    calls,                 \* history: the calls of onProcess: the text, the caller and
                           \* the last processed text before the call
    lastRead,              \* history: the last upload processFiles finished
    status,                \* App: procState.status
    appArtifacts,          \* App: const [artifacts, setArtifacts]
    waiting,               \* App: the texts of the calls of processInput that wait
    latest,                \* history: the text of the call of processInput started last
    useNumbering,          \* App: const [useNumbering, setUseNumbering]
    isDownloading,         \* App: const [isDownloading, setIsDownloading]
    downloadHandlers,      \* App: the keys of downloadHandlers.current
    batch,                 \* App: the run of a download of all, and where it stands
    cardJobs               \* the cards whose handleManualDownloadClick has not ended

\* the state of InputSection and of what it shares with App
section ==
    << sectionText, fileName, lastProcessedTextRef, isFileUploadRef, isLoading, inFlight,
       timer, reading, calls, lastRead >>

\* the state of App that processInput reads and writes
app == << status, appArtifacts, waiting, latest >>

\* the state of App the downloads read and write
down == << useNumbering, isDownloading, downloadHandlers, batch, cardJobs >>

\* the variables extractArtifacts and parseHtmlForPreview do not touch
outside == << exported, section, app, down >>

vars ==
    << pc, text, now, blocks, blockIndex, artifacts, targets, pushed, raised, preview,
       returned, exported, section, app, down >>

NoExport == [by |-> "none", index |-> 0, numbering |-> TRUE, names |-> << >>, files |-> << >>]

NoBatch ==
    [kind |-> "none", phase |-> "done", list |-> << >>, numbering |-> TRUE, i |-> 0,
     visits |-> << >>, skipped |-> << >>, saved |-> << >>, raised |-> FALSE]

NoTimer == [armed |-> FALSE, text |-> "", left |-> 0]

NoRead == [text |-> "", last |-> "", at |-> 0]

NoPreview ==
    [html |-> "", wrapperId |-> "", rawStyles |-> "", styles |-> "", bodyContent |-> ""]

Init ==
    /\ pc = "idle"
    /\ text = ""
    /\ now = 0
    /\ blocks = << >>
    /\ blockIndex = 0
    /\ artifacts = << >>
    /\ targets = << >>
    /\ pushed = << >>
    /\ raised = << >>
    /\ preview = NoPreview
    /\ returned = << >>
    /\ exported = NoExport
    /\ sectionText = ""
    /\ fileName = ""
    /\ lastProcessedTextRef = ""
    /\ isFileUploadRef = FALSE
    /\ isLoading = FALSE
    /\ inFlight = 0
    /\ timer = NoTimer
    /\ reading = ""
    /\ calls = << >>
    /\ lastRead = NoRead
    /\ status = "idle"
    /\ appArtifacts = << >>
    /\ waiting = << >>
    /\ latest = ""
    /\ useNumbering = TRUE
    /\ isDownloading = FALSE
    /\ downloadHandlers = {}
    /\ batch = NoBatch
    /\ cardJobs = {}

\* Begin with the artifacts of the call before left in the list
Begin_KeepArtifacts(t) ==
    /\ pc' = "loop"
    /\ text' = t
    /\ now' \in NowValues
    /\ blocks' = DetectBlocks(t)
    /\ blockIndex' = 0
    /\ artifacts' = artifacts
    /\ targets' = << >>
    /\ pushed' = << >>
    /\ raised' = << >>
    /\ preview' = NoPreview
    /\ UNCHANGED returned
    /\ UNCHANGED outside

\* a call of extractArtifacts(t) starts: fresh locals, lines 16-36
Begin(t) ==
    /\ pc' = "loop"
    /\ text' = t
    /\ now' \in NowValues
    /\ blocks' = DetectBlocks(t)
    /\ blockIndex' = 0
    /\ artifacts' = << >>
    /\ targets' = << >>
    /\ pushed' = << >>
    /\ raised' = << >>
    /\ preview' = NoPreview
    /\ UNCHANGED returned
    /\ UNCHANGED outside

\* the first call of extractArtifacts
Extract(t) == pc = "idle" /\ Begin(t)

\* the largest number of calls of extractArtifacts in one run
MaxCalls == 3

\* a further call, after the call before has returned
ExtractAgain(t) == pc = "done" /\ Len(returned) < MaxCalls /\ Begin(t)

\* SplitArtifacts walking the targets from the last to the first
SplitArtifacts_Reversed(clock, index, head, tg) ==
    [k \in 1..Len(tg) |-> SplitArtifact(clock, index, head, tg[Len(tg) + 1 - k], k)]

\* the artifacts of a split block, one for each target
SplitArtifacts(clock, index, head, tg) ==
    [k \in 1..Len(tg) |-> SplitArtifact(clock, index, head, tg[k], k)]

\* what one visit of forEach pushes when its try body raises at point f:
\* f = 0 before artifact generation starts, f = k while the k-th target of a
\* split is handled; f = -1 stands for a visit that raises nothing
VisitPushes(clock, index, block, tg, head, f) ==
    IF f = -1
    THEN IF Len(tg) > 1 THEN SplitArtifacts(clock, index, head, tg)
         ELSE << BlockArtifact(clock, index, block) >>
    ELSE (IF f > 1 THEN SubSeq(SplitArtifacts(clock, index, head, tg), 1, f - 1)
          ELSE << >>)
         \o << FallbackArtifact(clock, index, block) >>

\* HeadAndTargets with the head of the block left out
HeadAndTargets_NoHead(doc) == [head |-> "", tg |-> PeelTargets(doc.body)]

\* const headContent and let targets of a parsed block
HeadAndTargets(doc) == [head |-> innerHTML(doc.head), tg |-> PeelTargets(doc.body)]

\* the points at which the try body of a visit may raise
RaisePoints(tg) == 0..(IF Len(tg) > 1 THEN Len(tg) ELSE 0)

\* forEach has a block left to visit
MoreBlocks == pc = "loop" /\ blockIndex < Len(blocks)

\* one visit of blocks.forEach (lines 39-157), raising or not
Visit(raising) ==
    /\ \E d \in {HeadAndTargets(ParseDocument(blocks[blockIndex + 1]))} :
         \E f \in (IF raising THEN RaisePoints(d.tg) ELSE {-1}) :
           \E new \in {VisitPushes(now, blockIndex, blocks[blockIndex + 1], d.tg, d.head, f)} :
             /\ artifacts' = artifacts \o new
             /\ targets' = (IF f = 0 THEN << >> ELSE d.tg)
             /\ pushed' = Append(pushed, new)
             /\ raised' = Append(raised, raising)
    /\ blockIndex' = blockIndex + 1
    /\ UNCHANGED << pc, text, now, blocks, preview, returned >>
    /\ UNCHANGED outside

\* a visit in which nothing raises
ProcessBlock == MoreBlocks /\ Visit(FALSE)

\* a visit in which the parser or an element accessor raises
ProcessBlockRaising == MoreBlocks /\ Visit(TRUE)

\* return artifacts: line 159
Return ==
    /\ pc = "loop"
    /\ blockIndex = Len(blocks)
    /\ pc' = "done"
    /\ returned' = Append(returned, [text |-> text, artifacts |-> artifacts])
    /\ UNCHANGED << text, now, blocks, blockIndex, artifacts, targets, pushed, raised, preview >>
    /\ UNCHANGED outside

\* a preview card renders artifact k: parseHtmlForPreview(artifact.code, w)
Preview(k, w) ==
    /\ pc = "done"
    /\ \E parsed \in {parseHtmlForPreview(artifacts[k].code, w)} :
           preview' = [html |-> artifacts[k].code, wrapperId |-> w,
                       rawStyles |-> parsed.rawStyles, styles |-> parsed.styles,
                       bodyContent |-> parsed.bodyContent]
    /\ UNCHANGED << pc, text, now, blocks, blockIndex, artifacts, targets, pushed, raised,
                    returned >>
    /\ UNCHANGED outside

(***************************************************************************)
(* The HTML downloads: PreviewCard.getFullHtml and App.handleDownloadAllHtml *)
(***************************************************************************)

\* code.match(/^\s*<!DOCTYPE/i) || code.match(/^\s*<html/i)
IsDocument(code) ==
    With(ToLowerCase(code), LAMBDA low :
      StartsAt(low, "<!doctype", SkipSpace(low, 1)) \/ StartsAt(low, "<html", SkipSpace(low, 1)))

\* getFullHtml rendered for every artifact code alike
getFullHtml_AlwaysWrapped(artifact) ==
    "<!DOCTYPE html>\n<html lang=\"ko\">\n<head>\n<meta charset=\"UTF-8\">\n<title>"
    \o artifact.title
    \o "</title>\n</head>\n<body style=\"margin:0;padding:0;background:#fff;\">\n"
    \o artifact.code \o "\n</body>\n</html>"

\* PreviewCard.getFullHtml for the artifact of the card
getFullHtml(artifact) ==
    IF IsDocument(Trim(artifact.code)) THEN Trim(artifact.code)
    ELSE "<!DOCTYPE html>\n<html lang=\"ko\">\n<head>\n<meta charset=\"UTF-8\">\n<title>"
         \o artifact.title
         \o "</title>\n</head>\n<body style=\"margin:0;padding:0;background:#fff;\">\n"
         \o artifact.code \o "\n</body>\n</html>"

\* fullHtml of one artifact in App.handleDownloadAllHtml
batchFullHtml(artifact) ==
    IF IsDocument(Trim(artifact.code)) THEN Trim(artifact.code)
    ELSE "<!DOCTYPE html>\n<html lang=\"ko\">\n<head>\n<meta charset=\"UTF-8\">\n<title>"
         \o artifact.title
         \o "</title>\n</head>\n<body style=\"margin:0;padding:0;\">\n"
         \o Trim(artifact.code) \o "\n</body>\n</html>"

\* the extraction variables, which a download leaves alone
extraction ==
    << pc, text, now, blocks, blockIndex, artifacts, targets, pushed, raised, preview,
       returned >>

\* the characters a file name must not hold: /[\\/:*?"<>|]/
Forbidden == {"\\", "/", ":", "*", "?", "\"", "<", ">", "|"}

\* title.replace(/[\\/:*?"<>|]/g, '_'), from the i-th character on
RECURSIVE ReplaceForbidden(_, _)
ReplaceForbidden(s, i) ==
    IF i > Len(s) THEN ""
    ELSE (IF SubSeq(s, i, i) \in Forbidden THEN "_" ELSE SubSeq(s, i, i))
         \o ReplaceForbidden(s, i + 1)

\* const safeTitle, with the name used when nothing is left of the title
safeTitle(title, fallback) ==
    With(Trim(ReplaceForbidden(title, 1)), LAMBDA safe : IF safe = "" THEN fallback ELSE safe)

\* const prefix for the list position index (0-based)
prefix(numbering, index) ==
    IF numbering
    THEN (IF index + 1 < 10 THEN "0" ELSE "") \o ToString(index + 1) \o "_"
    ELSE ""

\* link.download of an HTML file
htmlFileName(artifact, numbering, index) ==
    prefix(numbering, index) \o safeTitle(artifact.title, "design") \o ".html"

\* PreviewCard.handleHtmlDownload on the card of artifact k
handleHtmlDownload(k) ==
    /\ pc = "done"
    /\ exported' = [by |-> "card", index |-> k, numbering |-> useNumbering,
                    names |-> << htmlFileName(artifacts[k], useNumbering, k - 1) >>,
                    files |-> << getFullHtml(artifacts[k]) >>]
    /\ UNCHANGED << extraction, section, app, down >>

\* the numbering checkbox, shown with the results of an extraction:
\* setUseNumbering(e.target.checked)
setUseNumbering ==
    /\ pc = "done"
    /\ Len(artifacts) # 0
    /\ useNumbering' = ~useNumbering
    /\ UNCHANGED << isDownloading, downloadHandlers, batch, cardJobs >>
    /\ UNCHANGED << extraction, exported, section, app >>

\* App.handleDownloadAllHtml, the whole loop
handleDownloadAllHtml ==
    /\ pc = "done"
    /\ Len(artifacts) # 0
    /\ exported' = [by |-> "all", index |-> 0, numbering |-> useNumbering,
                    names |-> [i \in 1..Len(artifacts) |->
                                 htmlFileName(artifacts[i], useNumbering, i - 1)],
                    files |-> [i \in 1..Len(artifacts) |-> batchFullHtml(artifacts[i])]]
    /\ UNCHANGED << extraction, section, app, down >>

DownloadHtml == \E k \in 1..Len(artifacts) : handleHtmlDownload(k)

(***************************************************************************)
(* InputSection: the auto-process effect, the uploads and the reset         *)
(*                                                                         *)
(* An action is one event with the render and the effect run it causes.     *)
(* Time passes in ticks; a timeout that is due fires before time goes on.   *)
(***************************************************************************)

\* setTimeout(..., 1000)
DebounceMs == 1000

\* the length of one tick of the clock, in milliseconds
TickMs == 500

\* the largest number of calls of onProcess in one run
MaxProcessCalls == 2

\* the texts typed into the textarea
SectionTexts == {"", " ", "A", "B"}

\* the combined texts of the uploaded files
FileTexts == {"A", "B", "B\n"}

\* the record of one call of onProcess
onProcess(t, caller) == [text |-> t, by |-> caller, last |-> lastProcessedTextRef]

\* the auto-process effect without the test against the last processed text
RunEffect_NoLastTest(t, loading, flag, last) ==
    IF Trim(t) = "" \/ loading THEN [timer |-> NoTimer, flag |-> flag]
    ELSE IF flag THEN [timer |-> NoTimer, flag |-> FALSE]
    ELSE [timer |-> [armed |-> TRUE, text |-> t, left |-> DebounceMs], flag |-> flag]

\* one run of the auto-process effect, after the cleanup of the run before
\* has cleared its timeout: the timeout now pending and the upload flag
RunEffect(t, loading, flag, last) ==
    IF Trim(t) = "" \/ loading THEN [timer |-> NoTimer, flag |-> flag]
    ELSE IF flag THEN [timer |-> NoTimer, flag |-> FALSE]
    ELSE IF t = last THEN [timer |-> NoTimer, flag |-> flag]
    ELSE [timer |-> [armed |-> TRUE, text |-> t, left |-> DebounceMs], flag |-> flag]

\* the textarea's onChange: setText(v)
Edit(v) ==
    /\ v # sectionText
    /\ sectionText' = v
    /\ \E e \in {RunEffect(v, isLoading, isFileUploadRef, lastProcessedTextRef)} :
          timer' = e.timer /\ isFileUploadRef' = e.flag
    /\ UNCHANGED << fileName, lastProcessedTextRef, isLoading, inFlight, reading, calls, lastRead >>
    /\ UNCHANGED << extraction, exported, app, down >>

\* handleClear; the effect runs only if the text changes
handleClear ==
    /\ sectionText # "" \/ fileName # ""
    /\ sectionText' = ""
    /\ fileName' = ""
    /\ lastProcessedTextRef' = ""
    /\ \E e \in {RunEffect("", isLoading, isFileUploadRef, "")} :
          /\ timer' = (IF sectionText # "" THEN e.timer ELSE timer)
          /\ isFileUploadRef' = (IF sectionText # "" THEN e.flag ELSE isFileUploadRef)
    /\ UNCHANGED << isLoading, inFlight, reading, calls, lastRead >>
    /\ UNCHANGED << extraction, exported, app, down >>

\* the Generate button: onProcess(text) at once; App renders with
\* isLoading true and the effect runs
GenerateNow ==
    /\ Trim(sectionText) # ""
    /\ ~isLoading
    /\ Len(calls) < MaxProcessCalls
    /\ lastProcessedTextRef' = sectionText
    /\ calls' = Append(calls, onProcess(sectionText, "button"))
    /\ isLoading' = TRUE
    /\ inFlight' = inFlight + 1
    /\ \E e \in {RunEffect(sectionText, TRUE, isFileUploadRef, sectionText)} :
          timer' = e.timer /\ isFileUploadRef' = e.flag
    /\ UNCHANGED << sectionText, fileName, reading, lastRead >>
    /\ UNCHANGED << extraction, exported, app, down >>

\* handleFileUpload or handleDrop with valid files: processFiles starts to read
Upload(f) ==
    /\ reading = ""
    /\ reading' = f
    /\ UNCHANGED << sectionText, fileName, lastProcessedTextRef, isFileUploadRef, isLoading,
                    inFlight, timer, calls, lastRead >>
    /\ UNCHANGED << extraction, exported, app, down >>

\* the effect state after the renders processFiles causes: in one batch, or
\* one render for setText and one for the state App sets in onProcess
AfterUpload(combined, process, batched) ==
    IF batched
    THEN IF combined # sectionText \/ process
         THEN RunEffect(combined, isLoading \/ process, TRUE,
                        IF process THEN combined ELSE lastProcessedTextRef)
         ELSE [timer |-> timer, flag |-> TRUE]
    ELSE With(IF combined # sectionText
              THEN RunEffect(combined, isLoading, TRUE, lastProcessedTextRef)
              ELSE [timer |-> timer, flag |-> TRUE], LAMBDA first :
           IF process THEN RunEffect(combined, TRUE, first.flag, combined) ELSE first)

\* processFiles after the files are read: the combined text is set and,
\* unless it was the last processed text, processed at once
FinishRead(batched) ==
    /\ reading # ""
    /\ Len(calls) < MaxProcessCalls
    /\ \E process \in {Trim(reading) # lastProcessedTextRef} :
          /\ sectionText' = reading
          /\ fileName' = "file"
          /\ lastProcessedTextRef' = (IF process THEN reading ELSE lastProcessedTextRef)
          /\ calls' = (IF process THEN Append(calls, onProcess(reading, "upload")) ELSE calls)
          /\ lastRead' = [text |-> reading, last |-> lastProcessedTextRef,
                          at |-> IF process THEN Len(calls) + 1 ELSE 0]
          /\ isLoading' = (isLoading \/ process)
          /\ inFlight' = (IF process THEN inFlight + 1 ELSE inFlight)
          /\ \E e \in {AfterUpload(reading, process, batched)} :
                timer' = e.timer /\ isFileUploadRef' = e.flag
    /\ reading' = ""
    /\ UNCHANGED << extraction, exported, app, down >>

\* the timeout of the effect fires: lines 37-41, then App renders with
\* isLoading true and the effect runs
TimerFires ==
    /\ timer.armed
    /\ timer.left <= 0
    /\ Len(calls) < MaxProcessCalls
    /\ lastProcessedTextRef' = timer.text
    /\ calls' = Append(calls, onProcess(timer.text, "timer"))
    /\ isLoading' = TRUE
    /\ inFlight' = inFlight + 1
    /\ \E e \in {RunEffect(sectionText, TRUE, isFileUploadRef, timer.text)} :
          timer' = e.timer /\ isFileUploadRef' = e.flag
    /\ UNCHANGED << sectionText, fileName, reading, lastRead >>
    /\ UNCHANGED << extraction, exported, app, down >>

\* a call of processInput ends: App leaves the analyzing status and renders,
\* InputSection gets a new onProcess and isLoading false, the effect runs
FinishProcessing ==
    /\ inFlight > 0
    /\ inFlight' = inFlight - 1
    /\ isLoading' = FALSE
    /\ \E e \in {RunEffect(sectionText, FALSE, isFileUploadRef, lastProcessedTextRef)} :
          timer' = e.timer /\ isFileUploadRef' = e.flag
    /\ UNCHANGED << sectionText, fileName, lastProcessedTextRef, reading, calls, lastRead >>
    /\ UNCHANGED << extraction, exported, app, down >>

\* half a second passes; a timeout that is due fires first
Tick ==
    /\ timer.armed
    /\ timer.left > 0
    /\ timer' = [timer EXCEPT !.left = timer.left - TickMs]
    /\ UNCHANGED << sectionText, fileName, lastProcessedTextRef, isFileUploadRef, isLoading,
                    inFlight, reading, calls, lastRead >>
    /\ UNCHANGED << extraction, exported, app, down >>

Type == \E v \in SectionTexts : Edit(v)
Drop == \E f \in FileTexts : Upload(f)
Read == \E batched \in BOOLEAN : FinishRead(batched)

NextInput ==
    Type \/ handleClear \/ GenerateNow \/ Drop \/ Read \/ TimerFires \/ FinishProcessing \/ Tick

\* InputSection under edits, uploads, resets and the passing of time
SpecInput == Init /\ [][NextInput]_vars

(***************************************************************************)
(* App: processInput, with calls that overlap                               *)
(***************************************************************************)

\* the largest number of calls of processInput that wait at the same time
MaxOverlap == 3

\* the texts processInput is called with
ProcessTexts ==
    {CardExample,
     WrapperExample,
     "plain words",
     "<div class=\"grid\"><section title=\"a/b\">E</section><section title=\" \">F</section>"
     \o "<section><h2>Z</h2></section></div>"}

\* the identifiers of the artifacts of a list
Ids(list) == {list[k].id : k \in 1..Len(list)}

\* the artifacts of the blocks bl from the i-th on, nothing raising
RECURSIVE ArtifactsFrom(_, _, _)
ArtifactsFrom(clock, bl, i) ==
    IF i > Len(bl) THEN << >>
    ELSE With(HeadAndTargets(ParseDocument(bl[i])), LAMBDA d :
              VisitPushes(clock, i - 1, bl[i], d.tg, d.head, -1))
         \o ArtifactsFrom(clock, bl, i + 1)

\* extractArtifacts(t) as one step, with Date.now() = clock
extractArtifacts(t, clock) == ArtifactsFrom(clock, DetectBlocks(t), 1)

\* processInput up to its await (lines 30-37). The effect and the button of
\* InputSection call it only when isLoading is false, processFiles at any time
processInput(t, upload) ==
    /\ upload \/ status # "analyzing"
    /\ Len(waiting) < MaxOverlap
    /\ status' = "analyzing"
    /\ appArtifacts' = << >>
    /\ waiting' = Append(waiting, t)
    /\ latest' = t
    /\ downloadHandlers' = {}
    /\ isLoading' = TRUE
    /\ inFlight' = inFlight + 1
    /\ UNCHANGED << sectionText, fileName, lastProcessedTextRef, isFileUploadRef, timer,
                    reading, calls, lastRead >>
    /\ UNCHANGED << useNumbering, isDownloading, batch, cardJobs >>
    /\ UNCHANGED << extraction, exported >>

\* processInput after its await (lines 39-47): the calls wait the same 100 ms,
\* so they go on in the order they started. The cards of the list then
\* rendered register their handlers (PreviewCard.tsx, lines 173-176)
Continue ==
    /\ waiting # << >>
    /\ \E clock \in NowValues :
         \E extracted \in {extractArtifacts(Head(waiting), clock)} :
           /\ status' = (IF extracted = << >> THEN "error" ELSE "complete")
           /\ appArtifacts' = (IF extracted = << >> THEN appArtifacts ELSE extracted)
    /\ downloadHandlers' = Ids(appArtifacts')
    /\ waiting' = Tail(waiting)
    /\ isLoading' = FALSE
    /\ inFlight' = inFlight - 1
    /\ UNCHANGED latest
    /\ UNCHANGED << sectionText, fileName, lastProcessedTextRef, isFileUploadRef, timer,
                    reading, calls, lastRead >>
    /\ UNCHANGED << useNumbering, isDownloading, batch, cardJobs >>
    /\ UNCHANGED << extraction, exported >>

Process == \E t \in ProcessTexts : \E upload \in BOOLEAN : processInput(t, upload)

(***************************************************************************)
(* App: the downloads                                                       *)
(*                                                                         *)
(* A download of all is a run over the artifact list it was started with;   *)
(* it stops at every await.  The model has one such run at a time.          *)
(***************************************************************************)

\* the largest number of cards that generate an image at the same time
MaxCardJobs == 1

\* link.download of an image file
imageFileName(artifact, numbering, index) ==
    prefix(numbering, index) \o safeTitle(artifact.title, "image") \o ".jpg"

\* the loop of handleDownloadAllImages from position b.i up to its next
\* await or its end, calling the first handler it finds from the other end
\* of the list
RECURSIVE Advance_FromEnd(_)
Advance_FromEnd(b) ==
    IF b.i > Len(b.list) THEN [b EXCEPT !.phase = "done"]
    ELSE IF b.list[Len(b.list) + 1 - b.i].id \in downloadHandlers
         THEN [b EXCEPT !.phase = "handler", !.visits = Append(@, Len(b.list) + 1 - b.i)]
         ELSE Advance_FromEnd([b EXCEPT !.i = @ + 1, !.skipped = Append(@, b.i)])

\* the loop of handleDownloadAllImages from position b.i up to its next
\* await or its end (lines 62-79): an artifact without handler is passed
\* over at once, a handler found is called and awaited
RECURSIVE Advance(_)
Advance(b) ==
    IF b.i > Len(b.list) THEN [b EXCEPT !.phase = "done"]
    ELSE IF b.list[b.i].id \in downloadHandlers
         THEN [b EXCEPT !.phase = "handler", !.visits = Append(@, b.i)]
         ELSE Advance([b EXCEPT !.i = @ + 1, !.skipped = Append(@, b.i)])

\* a run that starts on the list shown; of the artifacts it keeps what the
\* runs recorded here read, the identifier and the title
NewBatch(kind) ==
    [kind |-> kind, phase |-> "loop",
     list |-> [k \in 1..Len(appArtifacts) |->
                 [id |-> appArtifacts[k].id, title |-> appArtifacts[k].title]],
     numbering |-> useNumbering,
     i |-> 1, visits |-> << >>, skipped |-> << >>, saved |-> << >>, raised |-> FALSE]

\* the buttons of the downloads of all are shown with a list and enabled
\* while isDownloading is false
CanStartBatch ==
    /\ appArtifacts # << >>
    /\ ~isDownloading
    /\ batch.phase = "done"

\* handleDownloadAllImages up to its first await
handleDownloadAllImages ==
    /\ CanStartBatch
    /\ batch' = Advance(NewBatch("images"))
    /\ isDownloading' = (batch'.phase # "done")
    /\ UNCHANGED << useNumbering, downloadHandlers, cardJobs >>
    /\ UNCHANGED << extraction, exported, section, app >>

\* await handler() returns, with an image or with null; the image is saved
\* (lines 66-77)
HandlerReturns(image) ==
    /\ batch.phase = "handler"
    /\ batch' = [batch EXCEPT
                   !.phase = "pause",
                   !.saved = IF image
                             THEN Append(@, [index |-> batch.i,
                                             name |-> imageFileName(batch.list[batch.i],
                                                                    batch.numbering,
                                                                    batch.i - 1)])
                             ELSE @]
    /\ UNCHANGED << useNumbering, isDownloading, downloadHandlers, cardJobs >>
    /\ UNCHANGED << extraction, exported, section, app >>

\* the run of handleDownloadAllHtml saves the file of position i (lines 96-114)
SaveHtml(b) ==
    [b EXCEPT !.phase = "pause",
              !.visits = Append(@, b.i),
              !.saved = Append(@, [index |-> b.i,
                                   name |-> htmlFileName(b.list[b.i], b.numbering, b.i - 1)])]

\* handleDownloadAllHtml up to its first await
StartAllHtml ==
    /\ CanStartBatch
    /\ batch' = SaveHtml(NewBatch("html"))
    /\ isDownloading' = TRUE
    /\ UNCHANGED << useNumbering, downloadHandlers, cardJobs >>
    /\ UNCHANGED << extraction, exported, section, app >>

\* the pause after an artifact ends (800 ms for images, 300 ms for HTML) and
\* the loop goes on; at the end of the list finally sets isDownloading false
PauseEnds ==
    /\ batch.phase = "pause"
    /\ \E next \in {[batch EXCEPT !.i = @ + 1, !.phase = "loop"]} :
         batch' = IF batch.kind = "images" THEN Advance(next)
                  ELSE IF next.i > Len(next.list) THEN [next EXCEPT !.phase = "done"]
                  ELSE SaveHtml(next)
    /\ isDownloading' = (IF batch'.phase = "done" THEN FALSE ELSE isDownloading)
    /\ UNCHANGED << useNumbering, downloadHandlers, cardJobs >>
    /\ UNCHANGED << extraction, exported, section, app >>

\* the try body of a run raises where it goes on: catch, then finally
BatchRaises ==
    /\ batch.phase \in {"handler", "pause"}
    /\ batch' = [batch EXCEPT !.phase = "done", !.raised = TRUE]
    /\ isDownloading' = FALSE
    /\ UNCHANGED << useNumbering, downloadHandlers, cardJobs >>
    /\ UNCHANGED << extraction, exported, section, app >>

\* PreviewCard.handleManualDownloadClick of the card of artifact k up to its
\* await: onDownloadStart()
handleManualDownloadClick(k) ==
    /\ appArtifacts[k].id \notin cardJobs
    /\ Cardinality(cardJobs) < MaxCardJobs
    /\ cardJobs' = cardJobs \cup {appArtifacts[k].id}
    /\ isDownloading' = TRUE
    /\ UNCHANGED << useNumbering, downloadHandlers, batch >>
    /\ UNCHANGED << extraction, exported, section, app >>

\* generateImage of a card returns, the image is saved or the failure
\* reported: onDownloadEnd()
CardEnds(id) ==
    /\ cardJobs' = cardJobs \ {id}
    /\ isDownloading' = FALSE
    /\ UNCHANGED << useNumbering, downloadHandlers, batch >>
    /\ UNCHANGED << extraction, exported, section, app >>

\* the numbering checkbox of App
ToggleNumbering ==
    /\ appArtifacts # << >>
    /\ useNumbering' = ~useNumbering
    /\ UNCHANGED << isDownloading, downloadHandlers, batch, cardJobs >>
    /\ UNCHANGED << extraction, exported, section, app >>

HandlerEnds == \E image \in BOOLEAN : HandlerReturns(image)
CardClick == \E k \in 1..Len(appArtifacts) : handleManualDownloadClick(k)
CardDone == \E id \in cardJobs : CardEnds(id)

\* the texts processed while downloads go on
DownloadTexts ==
    {"plain words",
     "<div class=\"grid\"><section title=\"a/b\">E</section><section title=\" \">F</section>"
     \o "<section><h2>Z</h2></section></div>"}

\* a text is processed by the effect or the button of InputSection
Reprocess == \E t \in DownloadTexts : processInput(t, FALSE)

NextDownloads ==
    Reprocess \/ Continue \/ handleDownloadAllImages \/ HandlerEnds \/ StartAllHtml
    \/ PauseEnds \/ BatchRaises \/ CardClick \/ CardDone \/ ToggleNumbering

\* App under downloads, with texts processed in between
SpecDownloads == Init /\ [][NextDownloads]_vars

\* the same, where a handler that was called returns and a pause ends:
\* generateImage waits at most 3000 ms for the frame and turns every failure
\* into null, and the pauses are timeouts
SpecDownloadsFair == SpecDownloads /\ WF_vars(HandlerEnds) /\ WF_vars(PauseEnds)

NextApp == Process \/ Continue

\* App under calls of processInput
SpecApp == Init /\ [][NextApp]_vars

Call == \E t \in Inputs : Extract(t)
Render == \E k \in 1..Len(artifacts), w \in WrapperIds : Preview(k, w)

Next == Call \/ ProcessBlock \/ Return \/ Render

\* the DOM never raises (a standards browser parsing text/html)
Spec == Init /\ [][Next]_vars

NextRaising == Call \/ ProcessBlock \/ ProcessBlockRaising \/ Return

\* the parser or an element accessor may raise inside the try body
SpecRaising == Init /\ [][NextRaising]_vars

\* the texts whose artifacts are downloaded
ExportPieces ==
    {Fence \o "html\n<div class=\"card\">A</div>\n" \o Fence \o "\n",
     Fence \o "HTML <div class=\"list\"><p>B</p><p title=\"Tee\">C</p></div>" \o Fence,
     Fence \o "html <title>Ace</title><div>Q</div> " \o Fence,
     "<!DOCTYPE html>\n<html><head><title>Doc</title></head><body><p>D</p></body></html>\n",
     "<div>H</div>"}

ExportInputs ==
    {Join(q, "") : q \in SeqsUpTo(ExportPieces, MaxPieces)}
    \cup TitleInputs \cup LabelInputs \cup {CardExample, WrapperExample}

CallForExport == \E t \in ExportInputs : Extract(t)

NextExport ==
    CallForExport \/ ProcessBlock \/ Return \/ DownloadHtml \/ handleDownloadAllHtml
    \/ setUseNumbering

\* extraction followed by HTML downloads
SpecExport == Init /\ [][NextExport]_vars

\* the texts extractArtifacts is called with again and again
RepeatInputs ==
    {CardExample,
     WrapperExample,
     Fence \o "html <title>Ace</title><div>Q</div> " \o Fence \o "<p>G</p> ",
     "<HTML><body><section>E</section><section>F</section></body></HTML>"}

CallFirst == \E t \in RepeatInputs : Extract(t)
CallAgain == \E t \in RepeatInputs : ExtractAgain(t)

NextCalls == CallFirst \/ CallAgain \/ ProcessBlock \/ Return

\* several calls of extractArtifacts, one after the other
SpecCalls == Init /\ [][NextCalls]_vars

(***************************************************************************)
(* Properties                                                               *)
(***************************************************************************)

\* a visit of forEach has just ended
JustVisited == pc = "loop" /\ blockIndex >= 1

\* the block of the visit that has just ended, and what it pushed
LastBlock == blocks[blockIndex]
LastPushed == pushed[blockIndex]

\* the meaningful children of the body of a block, and of its first child
TopOf(block) == getMeaningfulChildren(ParseDocument(block).body)
InnerOf(top) == getMeaningfulChildren(top[1].kids)

\* ---- C1 ----------------------------------------------------------------

WellFormedTitle(t) ==
    /\ t # ""
    /\ Len(t) <= TitleMax + 3
    /\ Len(t) > TitleMax => SubSeq(t, TitleMax + 1, Len(t)) = "..."

\* C2: every artifact returned by extractArtifacts, whichever path produced
\* it, has a non-empty title that is at most 30 characters long, or is 30
\* characters followed by "..." (never more than 33 characters).
C2_TitleRule ==
    \A k \in 1..Len(artifacts) : WellFormedTitle(artifacts[k].title)

\* ---- C3 ----------------------------------------------------------------

\* the concatenation of a sequence of sequences
RECURSIVE Flatten(_)
Flatten(ss) == IF ss = << >> THEN << >> ELSE Head(ss) \o Flatten(Tail(ss))

\* C3: a block whose parsing or splitting raises, at whatever point,
\* contributes exactly one artifact, with the block text as code and the
\* title "Artifact {blockIndex+1}"; the result is made of the contributions of
\* the blocks, in order.
C3_FailureIsolation ==
    /\ artifacts = Flatten(pushed)
    /\ \A b \in 1..Len(pushed) :
          raised[b] =>
              /\ Len(pushed[b]) = 1
              /\ pushed[b][1].code = blocks[b]
              /\ pushed[b][1].title = "Artifact " \o ToString(b)

\* ---- C4 ----------------------------------------------------------------

\* the condition of the claim on a container and its meaningful children
DescendCondition(container, inner) ==
    \/ isWrapperName(containerClass(container))
    \/ /\ childrenHaveCardClass(inner) \/ childrenAreSections(inner)
       /\ ~isCardName(containerClass(container))

\* targets for the meaningful children top of the body, as the claim has it
ClaimedTargets(top, inner) ==
    IF Len(inner) > 1 /\ DescendCondition(top[1], inner) THEN inner ELSE top

\* C4: with a single container under body that has more than one meaningful
\* child, targets becomes the container's meaningful children iff
\* isWrapperName, or (childrenHaveCardClass or childrenAreSections) and not
\* isCardName; in every other case targets stays the meaningful children of
\* body; the descent goes one level deep at most.
C4_DescendRule ==
    JustVisited =>
        \A top \in {TopOf(LastBlock)} :
            IF Len(top) = 1
            THEN targets = ClaimedTargets(top, InnerOf(top))
            ELSE targets = top

C4_Witness ==
    /\ JustVisited
    /\ \E top \in {TopOf(LastBlock)} :
          /\ Len(top) = 1
          /\ Len(InnerOf(top)) > 1
          /\ isCardName(containerClass(top[1]))
          /\ isWrapperName(containerClass(top[1]))
          /\ targets = InnerOf(top)

\* ---- C5 ----------------------------------------------------------------

\* C5: a block whose body has a single container of class exactly "card" is
\* never split: the block pushes exactly one artifact, whatever the children
\* of the container; the bare fragment of a card holding a card-header and a
\* card-body yields exactly one artifact.
C5_CardNeverSplit ==
    /\ JustVisited =>
          \A top \in {TopOf(LastBlock)} :
              (Len(top) = 1 /\ className(top[1]) = "card") => Len(LastPushed) = 1
    /\ (pc = "done" /\ text = CardExample) => Len(artifacts) = 1

C5_Witness ==
    /\ JustVisited
    /\ Len(LastPushed) = 1
    /\ \E top \in {TopOf(LastBlock)} :
          /\ Len(top) = 1
          /\ className(top[1]) = "card"
          /\ Len(InnerOf(top)) = MaxChildren
          /\ childrenHaveCardClass(InnerOf(top))
          /\ childrenAreSections(InnerOf(top))

\* ---- C6 ----------------------------------------------------------------

CollectionClasses == {"card-wrapper", "grid", "list", "collection", "group"}

\* C6: a block whose body has a single container of class card-wrapper, grid,
\* list, collection or group with N >= 2 meaningful children pushes exactly N
\* artifacts, the i-th holding the markup of the i-th child, also when the
\* class satisfies isCardName.
C6_CollectionSplit ==
    JustVisited =>
        \A top \in {TopOf(LastBlock)} :
            (Len(top) = 1 /\ className(top[1]) \in CollectionClasses) =>
                \A inner \in {InnerOf(top)} :
                    Len(inner) >= 2 =>
                        /\ Len(LastPushed) = Len(inner)
                        /\ \A i \in 1..Len(inner) :
                              Includes(LastPushed[i].code, outerHTML(inner[i]))

C6_Witness ==
    /\ JustVisited
    /\ Len(LastPushed) = 2
    /\ \E top \in {TopOf(LastBlock)} :
          /\ Len(top) = 1
          /\ className(top[1]) = "card-wrapper"
          /\ isCardName(containerClass(top[1]))
          /\ Len(InnerOf(top)) = 2
          /\ childrenHaveCardClass(InnerOf(top))

\* ---- C7 ----------------------------------------------------------------

\* the outer markup of the meaningful children of the body of a document
UnitsOf(code) ==
    With(TopOf(code), LAMBDA top : [k \in 1..Len(top) |-> outerHTML(top[k])])

\* C7: a block with N > 1 targets after the wrapper-peel pushes exactly N
\* artifacts; the body of the i-th holds the outer markup of the i-th target
\* and the markup of no other element.
C7_OneArtifactPerTarget ==
    (JustVisited /\ Len(targets) > 1) =>
        /\ Len(LastPushed) = Len(targets)
        /\ \A i \in 1..Len(targets) :
              UnitsOf(LastPushed[i].code) = << outerHTML(targets[i]) >>

C7_Witness ==
    /\ JustVisited
    /\ Len(targets) = MaxChildren
    /\ Len(LastPushed) = MaxChildren
    /\ \E i, j \in 1..Len(targets) : outerHTML(targets[i]) # outerHTML(targets[j])

\* ---- C8 ----------------------------------------------------------------

\* extractArtifacts has just detected the blocks
JustDetected == pc = "loop" /\ blockIndex = 0

\* a fence with the info string html opens somewhere in low and closes later
FenceIn(low) ==
    \E i \in 1..Len(low) :
        /\ StartsAt(low, Fence \o "html", i)
        /\ \E j \in (i + 7)..Len(low) : StartsAt(low, Fence, j)

\* the text holds a fence with the info string html (any case), closed later
HasFence(t) == FenceIn(ToLowerCase(t))

\* a raw document opens at some i in low and a </html> follows it
RawDocumentIn(low) ==
    \E i \in 1..Len(low) :
        \/ /\ StartsAt(low, "<!doctype html>", i)
           /\ \E j \in (i + 15)..Len(low) : StartsAt(low, "</html>", j)
        \/ /\ StartsAt(low, "<html", i)
           /\ \E j \in (i + 5)..Len(low) : StartsAt(low, "</html>", j)

\* the text holds a raw document (any case)
HasRawDocument(t) == RawDocumentIn(ToLowerCase(t))

\* the trimmed text holds a tag-opening pattern and a <div or a <style
FragmentLike(trimmed) ==
    /\ \E i \in 1..Len(trimmed) :
          /\ CharAt(trimmed, i) = "<"
          /\ IsLetter(CharAt(trimmed, i + 1))
          /\ \E k \in (i + 2)..Len(trimmed) : CharAt(trimmed, k) = ">"
    /\ \E i \in 1..Len(trimmed) :
          StartsAt(trimmed, "<div", i) \/ StartsAt(trimmed, "<style", i)

\* the trimmed texts of a sequence of matches
Trimmed(ss) == [k \in 1..Len(ss) |-> Trim(ss[k])]

\* C8: the blocks come from exactly one tier, in strict priority: with a fence
\* they are the trimmed contents of the fences and nothing else; without a
\* fence but with a raw document they are the raw document spans; with
\* neither, they are the whole trimmed text if it is fragment-like, and none
\* otherwise.
C8_TierPriority ==
    JustDetected =>
        IF HasFence(text) THEN blocks = Trimmed(mdMatches(text)) /\ blocks # << >>
        ELSE IF HasRawDocument(text)
        THEN blocks = Trimmed(rawMatches(text)) /\ blocks # << >>
        ELSE IF FragmentLike(Trim(text)) THEN blocks = << Trim(text) >>
        ELSE blocks = << >>

C8_Witness ==
    /\ JustDetected
    /\ HasFence(text)
    /\ HasRawDocument(text)
    /\ FragmentLike(Trim(text))
    /\ blocks = Trimmed(mdMatches(text))
    /\ blocks # Trimmed(rawMatches(text))

\* ---- C9 ----------------------------------------------------------------

\* C9: for a text in which no tier matches (no html fence, no raw document
\* span, the trimmed text not fragment-like) extractArtifacts returns an
\* empty list.
C9_NoTierNoArtifacts ==
    (pc = "done" /\ preview = NoPreview) =>
        ((~HasFence(text) /\ ~HasRawDocument(text) /\ ~FragmentLike(Trim(text)))
            => artifacts = << >>)

C9_Witness ==
    /\ pc = "done"
    /\ LooksLikeTag(Trim(text))
    /\ ~HasFence(text)
    /\ ~HasRawDocument(text)
    /\ ~FragmentLike(Trim(text))
    /\ artifacts = << >>

\* ---- C10 ---------------------------------------------------------------

\* a block triggers a split: it has more than one target after the peel
TriggersSplit(block) == Len(PeelTargets(ParseDocument(block).body)) > 1

\* C10: for a text with k html fences none of which triggers a split,
\* extractArtifacts returns exactly k artifacts, the code of the j-th being
\* the trimmed content of the j-th fence.
C10_OneArtifactPerFence ==
    (pc = "done" /\ preview = NoPreview /\ HasFence(text)) =>
        \A fences \in {mdMatches(text)} :
            (\A j \in 1..Len(fences) : ~TriggersSplit(Trim(fences[j]))) =>
                /\ Len(artifacts) = Len(fences)
                /\ \A j \in 1..Len(fences) : artifacts[j].code = Trim(fences[j])

C10_Witness ==
    /\ pc = "done"
    /\ Len(mdMatches(text)) = MaxPieces
    /\ Len(artifacts) = MaxPieces
    /\ \A j \in 1..MaxPieces :
          /\ mdMatches(text)[j] # Trim(mdMatches(text)[j])
          /\ artifacts[j].code = Trim(mdMatches(text)[j])

\* ---- C11 ---------------------------------------------------------------

\* whether the texts units occur in text one after the other, from position from
RECURSIVE InOrderFrom(_, _, _)
InOrderFrom(t, units, from) ==
    IF units = << >> THEN TRUE
    ELSE With(IndexOf(t, Head(units), from), LAMBDA p :
           p # 0 /\ InOrderFrom(t, Tail(units), p + Len(Head(units))))

\* how many artifacts of the last visited block came from split targets
SplitCount ==
    IF Len(targets) > 1
    THEN (IF raised[blockIndex] THEN Len(LastPushed) - 1 ELSE Len(LastPushed))
    ELSE 0

\* the element each split artifact of the last visited block holds
SplitUnits == [i \in 1..SplitCount |-> UnitsOf(LastPushed[i].code)[1]]

\* C11: the returned list is ordered by source position: it is the artifacts
\* of the first block, then those of the second, and so on, and the split
\* artifacts of one block follow the order of their elements in the block
\* text, whether blocks are split, kept whole or have failed.
C11_SourceOrder ==
    /\ Len(pushed) = blockIndex
    /\ artifacts = Flatten(pushed)
    /\ JustVisited =>
          /\ \A i \in 1..Len(LastPushed) :
                i > SplitCount => LastPushed[i].code = LastBlock
          /\ InOrderFrom(LastBlock, SplitUnits, 1)

C11_Witness ==
    /\ pc = "done"
    /\ Len(blocks) = 2
    /\ raised = << TRUE, FALSE >>
    /\ Len(pushed[1]) = 2
    /\ Len(pushed[2]) = 2
    /\ pushed[2][1].code # pushed[2][2].code

\* ---- C12 ---------------------------------------------------------------

\* the content of the first literal <title> tag of a block, if it has one
LiteralTitle(block) ==
    With(ToLowerCase(block), LAMBDA low :
      With(IndexOf(low, "<title>", 1), LAMBDA i :
        With(IF i = 0 THEN 0 ELSE IndexOf(low, "</title>", i + 7), LAMBDA j :
          IF j = 0 THEN [has |-> FALSE, val |-> ""]
          ELSE [has |-> TRUE, val |-> SubSeq(block, i + 7, j - 1)])))

TitleSources(child) ==
    << HeadingText(Headings(child)),
       getAttribute(child, "title"),
       getAttribute(child, "aria-label") >>

\* the first source that is there, else "Card {i}"
FirstPresent(src, i) ==
    IF src[1].has THEN src[1].val
    ELSE IF src[2].has THEN src[2].val
    ELSE IF src[3].has THEN src[3].val
    ELSE "Card " \o ToString(i)

\* the first source that is there and not empty, else "Card {i}"
FirstNonEmpty(src, i) ==
    IF src[1].has /\ src[1].val # "" THEN src[1].val
    ELSE IF src[2].has /\ src[2].val # "" THEN src[2].val
    ELSE IF src[3].has /\ src[3].val # "" THEN src[3].val
    ELSE "Card " \o ToString(i)

\* C13 as stated: the title of the i-th split target of a block is the text
\* of its first h1/h2/h3 descendant, else its title attribute, else its
\* aria-label attribute, else "Card {i}" (cut to 30 characters plus "..."), a
\* later source being used only when every earlier one is absent.
C13_FirstPresentSource ==
    (JustVisited /\ Len(targets) > 1) =>
        \A i \in 1..Len(targets) :
            LastPushed[i].title = Truncated(FirstPresent(TitleSources(targets[i]), i))

\* C13 amended: the title of the i-th split target of a block is the trimmed
\* text of its first h1/h2/h3 descendant, else its title attribute, else its
\* aria-label attribute, else "Card {i}" (cut to 30 characters plus "..."), a
\* later source being used when every earlier one is absent or empty; i
\* counts the targets of the block.
C13_FirstNonEmptySource ==
    (JustVisited /\ Len(targets) > 1) =>
        \A i \in 1..Len(targets) :
            LastPushed[i].title = Truncated(FirstNonEmpty(TitleSources(targets[i]), i))

C13_Witness ==
    /\ JustVisited
    /\ Len(targets) = 5
    /\ \A i \in 1..3 : TitleSources(targets[1])[i].has
    /\ TitleSources(targets[4])[2] = [has |-> TRUE, val |-> ""]
    /\ [i \in 1..5 |-> LastPushed[i].title] = << "H", "T", "L", "L", "Card 5" >>

\* ---- C14 ---------------------------------------------------------------

\* C14: the artifacts of one extractArtifacts call have pairwise distinct
\* ids, whatever the number of blocks and whether they are split, kept whole
\* or have failed.
C14_DistinctIds ==
    \A i, j \in 1..Len(artifacts) :
        i # j => artifacts[i].id # artifacts[j].id

C14_Witness ==
    /\ pc = "done"
    /\ Len(blocks) = 2
    /\ raised = << TRUE, FALSE >>
    /\ Len(pushed[1]) = 2
    /\ Len(pushed[2]) = 1
    /\ Len(artifacts) = 3

\* ---- C15 ---------------------------------------------------------------

\* the code and the title of every artifact of a result, in order
Shape(result) == [k \in 1..Len(result) |-> [code |-> result[k].code, title |-> result[k].title]]

\* C15: two calls of extractArtifacts on the same text, with calls on other
\* texts between them or not, return lists of the same length with the same
\* code and the same title at every position; nothing an earlier call left
\* changes the result.
C15_SameTextSameResult ==
    \A i, j \in 1..Len(returned) :
        returned[i].text = returned[j].text =>
            Shape(returned[i].artifacts) = Shape(returned[j].artifacts)

C15_Witness ==
    /\ Len(returned) = 3
    /\ returned[1].text = returned[3].text
    /\ returned[2].text # returned[1].text
    /\ Len(returned[1].artifacts) = 2
    /\ returned[1].artifacts # returned[3].artifacts

\* ---- C16 ---------------------------------------------------------------

\* a character that continues an identifier of a style sheet
IsIdentChar(c) == IsWordChar(c) \/ c = "-"

\* the token body stands at position i, right after the start of the text, a
\* closing brace or a comma
AnchoredBodyToken(s, i) ==
    /\ StartsAt(s, "body", i)
    /\ (i = 1 \/ CharAt(s, i - 1) \in {"}", ","})
    /\ ~IsIdentChar(CharAt(s, i + 4))

\* the style text with the anchored body tokens replaced by #wrapperId and
\* every other character kept, from position i on
RECURSIVE OnlyAnchoredRewritten(_, _, _)
OnlyAnchoredRewritten(s, wrapperId, i) ==
    IF i > Len(s) THEN ""
    ELSE IF AnchoredBodyToken(s, i)
    THEN "#" \o wrapperId \o OnlyAnchoredRewritten(s, wrapperId, i + 4)
    ELSE CharAt(s, i) \o OnlyAnchoredRewritten(s, wrapperId, i + 1)

\* C16: parseHtmlForPreview rewrites the token body to #wrapperId only where
\* it stands right after the start of the text, a closing brace or a comma;
\* every other occurrence of body (in a class name, in a longer identifier,
\* in a value, after another character) and every other character of the
\* style text is left as it is.
C16_OnlyAnchoredTokens ==
    preview # NoPreview =>
        preview.styles = OnlyAnchoredRewritten(preview.rawStyles, preview.wrapperId, 1)

\* ---- C17 ---------------------------------------------------------------

\* the text of code between the first open and the first l after it
\* (open and l being there)
Between(code, open, l) ==
    With(IndexOf(code, open, 1) + Len(open), LAMBDA a :
      SubSeq(code, a, IndexOf(code, l, a) - 1))

\* the text t ends with tail
EndsWith(t, tail) ==
    Len(t) >= Len(tail) /\ SubSeq(t, Len(t) - Len(tail) + 1, Len(t)) = tail

\* the declarations of the style attribute of the body tag of code
BodyStyle(code) == Between(code, "<body style=\"", "\">")

\* the text of code between its body tag and </body>
BodyText(code) ==
    With(IndexOf(code, ">", IndexOf(code, "<body", 1)) + 1, LAMBDA a :
      SubSeq(code, a, IndexOf(code, "</body>", a) - 1))

\* C17: every artifact of a split block embeds the head inner markup of the
\* block verbatim (all artifacts of the block carry the same head content);
\* its body holds exactly the outer markup of its target, and the body tag
\* declares margin 0, padding 0 and a transparent background.
C17_HeadAndBody ==
    (JustVisited /\ Len(targets) > 1) =>
        \A head \in {innerHTML(ParseDocument(LastBlock).head)} :
            \A i \in 1..Len(targets) :
                \A code \in {LastPushed[i].code} :
                    /\ EndsWith(Trim(Between(code, "<head>", "</head>")), head)
                    /\ Trim(BodyText(code)) = outerHTML(targets[i])
                    /\ Includes(BodyStyle(code), "margin:0")
                    /\ Includes(BodyStyle(code), "padding:0")
                    /\ Includes(BodyStyle(code), "background: transparent")

C17_Witness ==
    /\ JustVisited
    /\ Len(targets) = 5
    /\ Includes(LastBlock, "<head><title>Two</title><style>.c{}</style></head>")
    /\ \A i \in 1..5 :
          Includes(LastPushed[i].code, "<title>Two</title><style>.c{}</style>\n</head>")

\* ---- C18 ---------------------------------------------------------------

\* how many section elements open in code
SectionCount(code) == Cardinality({i \in 1..Len(code) : StartsAt(ToLowerCase(code), "<section", i)})

\* C18: the fenced block of a div of class wrapper holding two sections of
\* class card with the texts A and B yields exactly 2 artifacts, titled
\* "Card 1" and "Card 2" in that order, the code of each holding exactly one
\* section element.
C18_WrapperExample ==
    (pc = "done" /\ text = WrapperExample) =>
        /\ Len(artifacts) = 2
        /\ artifacts[1].title = "Card 1"
        /\ artifacts[2].title = "Card 2"
        /\ \A k \in 1..2 : SectionCount(artifacts[k].code) = 1
        /\ Includes(artifacts[1].code, "<section class=\"card\">A</section>")
        /\ Includes(artifacts[2].code, "<section class=\"card\">B</section>")

C18_Witness ==
    /\ pc = "done"
    /\ text = WrapperExample
    /\ preview = NoPreview
    /\ Len(artifacts) = 2
    /\ Len(blocks) = 1

\* ---- C19 ---------------------------------------------------------------

\* the text starts with <!DOCTYPE or <html, in any letter case
StartsAsDocument(t) ==
    StartsAt(ToLowerCase(t), "<!doctype", 1) \/ StartsAt(ToLowerCase(t), "<html", 1)

\* the text is code inside a doctype/html/head/body skeleton
IsSkeletonAround(t, code) ==
    /\ StartsAt(t, "<!DOCTYPE html>\n<html", 1)
    /\ \E h \in 1..Len(t) :
          /\ StartsAt(t, "<head>", h)
          /\ \E b \in h..Len(t) :
                /\ StartsAt(t, "</head>\n<body", b)
                /\ \E c \in b..Len(t) : StartsAt(t, ">\n" \o code \o "\n</body>\n</html>", c)
    /\ EndsWith(t, "\n</body>\n</html>")

\* the artifact file number i of the last download was made from
ExportedFrom(i) == IF exported.by = "card" THEN artifacts[exported.index] ELSE artifacts[i]

\* the wrap rule of the download that made the last export
RuleOfExport(artifact) ==
    IF exported.by = "card" THEN getFullHtml(artifact) ELSE batchFullHtml(artifact)

\* C19: the HTML exported for an artifact, by the download of its card or by
\* the download of all, is a complete document: the artifact code itself if
\* its trimmed code starts with <!DOCTYPE or <html (any case), else the code
\* inside a doctype/html/head/body skeleton; the wrap rule applied to an
\* exported document returns it unchanged.
C19_ExportedDocument ==
    \A i \in 1..Len(exported.files) :
        \A a \in {ExportedFrom(i)} :
            \A file \in {exported.files[i]} :
                /\ StartsAsDocument(file)
                /\ StartsAsDocument(Trim(a.code)) => file = a.code
                /\ ~StartsAsDocument(Trim(a.code)) => IsSkeletonAround(file, a.code)
                /\ RuleOfExport([a EXCEPT !.code = file]) = file

C19_Witness ==
    /\ exported.by = "all"
    /\ Len(exported.files) = 3
    /\ exported.files[1] # artifacts[1].code
    /\ exported.files[2] = artifacts[2].code

\* ---- C20 ---------------------------------------------------------------

\* the text is left non-empty, differs from the last processed text and no
\* processing is in progress
AwaitsProcessing ==
    /\ Trim(sectionText) # ""
    /\ sectionText # lastProcessedTextRef
    /\ ~isLoading
    /\ inFlight = 0

\* C20: after any edits, uploads and resets, whenever the text is left
\* non-empty, differs from the last processed text and nothing is being
\* processed, a call of onProcess with that text is pending and is made when
\* one second has passed without an edit, not before; an edit within the
\* second replaces the pending call.
C20_PendingCall ==
    /\ AwaitsProcessing =>
          /\ timer.armed
          /\ timer.text = sectionText
          /\ timer.left <= DebounceMs
    /\ timer.armed => timer.text = sectionText

\* ---- C21 ---------------------------------------------------------------

\* the calls of onProcess made by the timeout of the effect never repeat the
\* text that was the last processed one
NoRepeatByEffect ==
    \A i \in 1..Len(calls) : calls[i].by = "timer" => calls[i].text # calls[i].last

\* the last finished upload was processed at once by processFiles, with its
\* combined text
ProcessedAtOnce ==
    /\ lastRead.at \in 1..Len(calls)
    /\ calls[lastRead.at].text = lastRead.text
    /\ calls[lastRead.at].by = "upload"

\* while the uploaded text is the text shown and the last processed one, the
\* effect has no call pending
NoSecondCall ==
    (lastRead.at > 0 /\ sectionText = lastRead.text /\ lastProcessedTextRef = lastRead.text) =>
        ~timer.armed

IsResultOf(t) ==
    \E clock \in NowValues : Shape(appArtifacts) = Shape(extractArtifacts(t, clock))

\* C22: after any calls of processInput, overlapping or not, the status
\* complete implies the artifact list is not empty and is the result of the
\* call started last, and the status error or analyzing implies the list is
\* empty.
C22_StatusAndArtifacts ==
    /\ status = "complete" => appArtifacts # << >> /\ IsResultOf(latest)
    /\ status \in {"error", "analyzing"} => appArtifacts = << >>

\* ---- C24 ---------------------------------------------------------------

\* C24: for every artifact and every numbering setting, the download of all
\* HTML gives for the artifact the same file name and the same file content
\* as the HTML download of its card at the same list position.
C24_SameFileBothWays ==
    exported.by = "all" =>
        \A k \in 1..Len(exported.files) :
            /\ exported.names[k] = htmlFileName(artifacts[k], exported.numbering, k - 1)
            /\ exported.files[k] = getFullHtml(artifacts[k])

\* ---- C23 ---------------------------------------------------------------

\* a download of all has not ended, or a card still generates its image
DownloadInProgress == batch.phase # "done" \/ cardJobs # {}

\* C23: isDownloading is true in every state in which a download is in
\* progress, whatever the interleaving of the downloads of all and of the
\* cards, and false once none is in progress, also when a download of all
\* ends by an error.
C23_FlagFollowsDownloads == isDownloading <=> DownloadInProgress

\* ---- C25 ---------------------------------------------------------------

Increasing(seq) == \A a, b \in 1..Len(seq) : a < b => seq[a] < seq[b]

\* the positions of the images a run has saved
SavedPositions == [k \in 1..Len(batch.saved) |-> batch.saved[k].index]

\* the name an image of list position p (1-based) is to be saved under
ExpectedImageName(p) ==
    (IF batch.numbering THEN (IF p < 10 THEN "0" ELSE "") \o ToString(p) \o "_" ELSE "")
    \o safeTitle(batch.list[p].title, "image") \o ".jpg"

\* what holds of a run of handleDownloadAllImages at every moment
ImagesRunInOrder ==
    batch.kind = "images" =>
        /\ Increasing(batch.visits)
        /\ \A a, b \in 1..Len(batch.visits) :
               a # b => batch.list[batch.visits[a]].id # batch.list[batch.visits[b]].id
        /\ Increasing(batch.skipped)
        /\ \A a \in 1..Len(batch.visits) : \A b \in 1..Len(batch.skipped) :
               batch.visits[a] # batch.skipped[b]
        /\ Increasing(SavedPositions)
        /\ \A k \in 1..Len(batch.saved) :
               /\ \E a \in 1..Len(batch.visits) : batch.visits[a] = batch.saved[k].index
               /\ batch.saved[k].name = ExpectedImageName(batch.saved[k].index)
        /\ (batch.phase = "done" /\ ~batch.raised) =>
               \A p \in 1..Len(batch.list) :
                   \/ \E a \in 1..Len(batch.visits) : batch.visits[a] = p
                   \/ \E b \in 1..Len(batch.skipped) : batch.skipped[b] = p
        /\ (batch.phase = "done" /\ cardJobs = {}) => ~isDownloading

ImagesRunning == batch.kind = "images" /\ batch.phase # "done"

ImagesEnded == batch.kind = "images" /\ batch.phase = "done"

\* C25: handleDownloadAllImages goes through the artifacts in list order,
\* calls the handler registered under the identifier of an artifact at most
\* once, passes over an artifact without handler or with a handler that
\* returns null and goes on, names a saved image after the list position of
\* its artifact (two digits, when numbering is on), and always ends, with
\* isDownloading false.
C25_BatchImages == []ImagesRunInOrder /\ (ImagesRunning ~> ImagesEnded)

\* a run over three artifacts has ended: the handler of the second returned
\* null, the first and the third image were saved under positions 01 and 03
C25_Witness ==
    /\ ImagesEnded
    /\ ~batch.raised
    /\ ~isDownloading
    /\ batch.numbering
    /\ batch.visits = << 1, 2, 3 >>
    /\ Len(batch.saved) = 2
    /\ batch.saved[1].name = "01_a_b.jpg"
    /\ batch.saved[2].name = "03_Z.jpg"
====
